---- MODULE Spec2Model ----
(***************************************************************************)
(* A model of csv2graph.py: convert_to_graph (the pandas / networkx        *)
(* pipeline that turns CSV rows into a graph) and the token extractors     *)
(* find_mentions and find_hashtags.                                        *)
(*                                                                         *)
(* A Python str is a sequence of one-character strings.  A DataFrame cell  *)
(* is a record [kind, items]: a str ("str", one item), the missing value   *)
(* NaN ("nan", no item) or a Python list of str ("list", its items).       *)
(***************************************************************************)
EXTENDS Integers, Sequences, FiniteSets, TLC

VARIABLES pc, config, csv, df, E, G, err, x, tokens

vars == <<pc, config, csv, df, E, G, err, x, tokens>>

(***************************************************************************)
(* Bounds of the model.                                                    *)
(***************************************************************************)
MaxRows == 2
MaxLen == 3

(***************************************************************************)
(* Python strings.                                                         *)
(***************************************************************************)
Alphabet == {"@", "#", " ", "a", "B"}

\* str.lower() on one character
LowerChar(c) == IF c = "B" THEN "b" ELSE c

\* x.lower()
lower(s) == [i \in 1..Len(s) |-> LowerChar(s[i])]

IsSpace(c) == c = " "

\* x.split(): split on runs of whitespace, no empty token
RECURSIVE SplitFrom(_, _, _)
SplitFrom(s, i, cur) ==
  IF i > Len(s)
  THEN IF cur = <<>> THEN <<>> ELSE <<cur>>
  ELSE IF IsSpace(s[i])
       THEN IF cur = <<>>
            THEN SplitFrom(s, i + 1, <<>>)
            ELSE <<cur>> \o SplitFrom(s, i + 1, <<>>)
       ELSE SplitFrom(s, i + 1, Append(cur, s[i]))

split(s) == SplitFrom(s, 1, <<>>)

\* tok.startswith(c)
startswith(tok, c) == Len(tok) >= 1 /\ tok[1] = c

\* tok.lstrip(c): every leading c is removed
RECURSIVE lstrip(_, _)
lstrip(tok, c) ==
  IF tok # <<>> /\ tok[1] = c THEN lstrip(Tail(tok), c) ELSE tok

\* the length test of find_mentions, taken on the token with its "@"
MentionLongEnough(mention) == Len(mention) > 1

\* the length test of find_hashtags, taken on the token with its "#"
HashtagLongEnough(hashtag) == Len(hashtag) > 2

find_mentions(s) ==
  LET mentions == SelectSeq(split(lower(s)), LAMBDA t : startswith(t, "@"))
      kept == SelectSeq(mentions, MentionLongEnough)
  IN  [i \in 1..Len(kept) |-> lstrip(kept[i], "@")]

find_hashtags(s) ==
  LET hashtags == SelectSeq(split(lower(s)), LAMBDA t : startswith(t, "#"))
  IN  SelectSeq(hashtags, HashtagLongEnough)

(***************************************************************************)
(* DataFrame cells.                                                        *)
(***************************************************************************)
NaN == [kind |-> "nan", items |-> <<>>]

Scalar(s) == [kind |-> "str", items |-> <<s>>]

List(ts) == [kind |-> "list", items |-> ts]

None == "None"

\* Series.astype(str): the missing value becomes the three letters "nan"
astype_str(cell) ==
  IF cell.kind = "nan" THEN Scalar(<<"n", "a", "n">>) ELSE cell

\* the default source_map and target_map, lambda x: x
identity(cell) == cell

\* target_map: the default, or what --mentions / --hashtags store
apply_target_map(mode, cell) ==
  CASE mode = "identity" -> identity(cell)
    [] mode = "mentions" -> List(find_mentions(cell.items[1]))
    [] mode = "hashtags" -> List(find_hashtags(cell.items[1]))

(***************************************************************************)
(* The call's arguments and the CSV files it is run on.                    *)
(***************************************************************************)
source == "s"

target == <<"t1", "t2">>

Configs ==
  [ directed   : BOOLEAN,
    weighted   : BOOLEAN,
    self_loops : BOOLEAN,
    explode    : BOOLEAN,
    target_map : {"identity", "mentions", "hashtags"},
    node_attrs : {<<>>, <<"attr">>},
    edge_attrs : {<<>>, <<"e">>},
    node_index : {None, "idx"} ]

Range(f) == {f[i] : i \in DOMAIN f}

\* the usecols list of read_csv, for a node_index that is None
usecols(cfg) ==
  <<source>> \o target \o cfg.node_attrs \o cfg.edge_attrs

\* the raw values a column of the file may hold: text, or nothing (NaN)
ColumnValues(c) ==
  CASE c = "s" -> {Scalar(<<"a">>), Scalar(<<"b">>)}
    [] c = "t1" -> {Scalar(<<"b">>),
                    Scalar(<<"@", "a", " ", "@", "b", " ", "#", "a", "b">>)}
    [] c = "t2" -> {NaN, Scalar(<<"@", "b">>)}
    [] c = "attr" -> {Scalar(<<"x">>), Scalar(<<"y">>)}
    [] c = "e" -> {Scalar(<<"k">>)}
    [] c = "idx" -> {Scalar(<<"b">>)}

\* the records of a file whose header is the list of columns
RECURSIVE RecordsOver(_)
RecordsOver(columns) ==
  IF columns = <<>> THEN {<<>>}
  ELSE {(Head(columns) :> v) @@ r :
          v \in ColumnValues(Head(columns)), r \in RecordsOver(Tail(columns))}

Records(cfg) == RecordsOver(usecols(cfg))

Files(cfg) == UNION {[1..n -> Records(cfg)] : n \in 1..MaxRows}

\* read_csv: the rows of the file under a RangeIndex
read_csv(file, cfg) ==
  [i \in 1..Len(file) |->
     [c \in Range(usecols(cfg)) \cup {"index"} |->
        IF c = "index" THEN i ELSE file[i][c]]]

(***************************************************************************)
(* Lines 79-84: string coercion, the maps, and explode.                    *)
(***************************************************************************)
map_columns(frame, cfg) ==
  [i \in 1..Len(frame) |->
     [c \in DOMAIN frame[i] |->
        IF c = source THEN identity(astype_str(frame[i][c]))
        ELSE IF c \in Range(target)
             THEN apply_target_map(cfg.target_map, astype_str(frame[i][c]))
             ELSE frame[i][c]]]

\* explode_row, had an empty list left no row at all
explode_row_dropping(row, column) ==
  IF row[column].kind # "list"
  THEN <<row>>
  ELSE [k \in 1..Len(row[column].items) |->
          [row EXCEPT ![column] = Scalar(row[column].items[k])]]

\* DataFrame.explode on one row: one row per list item, NaN for an empty
\* list, the row itself for a scalar; the index label is kept
explode_row(row, column) ==
  IF row[column].kind # "list"
  THEN <<row>>
  ELSE IF row[column].items = <<>>
       THEN <<[row EXCEPT ![column] = NaN]>>
       ELSE [k \in 1..Len(row[column].items) |->
               [row EXCEPT ![column] = Scalar(row[column].items[k])]]

RECURSIVE explode_from(_, _, _)
explode_from(frame, column, i) ==
  IF i > Len(frame) THEN <<>>
  ELSE explode_row(frame[i], column) \o explode_from(frame, column, i + 1)

\* df.explode(column)
explode(frame, column) == explode_from(frame, column, 1)

RECURSIVE explode_columns(_, _)
explode_columns(frame, columns) ==
  IF columns = <<>> THEN frame
  ELSE explode_columns(explode(frame, Head(columns)), Tail(columns))

normalize(frame, cfg) ==
  LET mapped == map_columns(frame, cfg)
  IN  IF cfg.explode
      THEN explode_columns(mapped, <<source>> \o target)
      ELSE mapped

(***************************************************************************)
(* Lines 86-96: the edge list.                                             *)
(***************************************************************************)
\* df[[source, t]].dropna(subset=[t]).values
candidates(frame, t) ==
  LET kept == SelectSeq(frame, LAMBDA row : row[t].kind # "nan")
  IN  [i \in 1..Len(kept) |->
         [c0 |-> kept[i][source], c1 |-> kept[i][t], attrs |-> {}]]

RECURSIVE concat(_, _)
concat(frame, columns) ==
  IF columns = <<>> THEN <<>>
  ELSE candidates(frame, Head(columns)) \o concat(frame, Tail(columns))

\* drop_self_loops, had the comparison never found two cells equal
drop_self_loops_keeping(edges) ==
  SelectSeq(edges, LAMBDA r : TRUE)

\* E[E.iloc[:, 0] != E.iloc[:, 1]]
drop_self_loops(edges) ==
  SelectSeq(edges, LAMBDA r : r.c0 # r.c1)

\* an object pandas cannot hash (value_counts) nor networkx (a node)
Unhashable(edges) ==
  \E i \in 1..Len(edges) : edges[i].c0.kind = "list" \/ edges[i].c1.kind = "list"

\* E.value_counts().loc[x, y]
value_counts(edges, a, b) ==
  Cardinality({i \in 1..Len(edges) : edges[i].c0 = a /\ edges[i].c1 = b})

\* E['weight'] = [weights.loc[x, y] for x, y in zip(...)]
with_weight(edges) ==
  [i \in 1..Len(edges) |->
     [edges[i] EXCEPT
        !.attrs = {<<"weight", value_counts(edges, edges[i].c0, edges[i].c1)>>}]]

edge_list(frame, cfg) ==
  LET all == concat(frame, target)
  IN  IF cfg.self_loops THEN all ELSE drop_self_loops(all)

(***************************************************************************)
(* Lines 98-106: networkx from_pandas_edgelist.                            *)
(***************************************************************************)
EmptyGraph == [node |-> <<>>, adj |-> <<>>]

\* dict.update
update(old, new) ==
  {p \in old : \A q \in new : q[1] # p[1]} \cup new

add_node(g, n) ==
  IF n \in DOMAIN g.node THEN g
  ELSE [node |-> g.node @@ (n :> {}), adj |-> g.adj @@ (n :> <<>>)]

set_adj(adj, u, v, data) ==
  [adj EXCEPT ![u] = (v :> data) @@ adj[u]]

\* Graph.add_edge / DiGraph.add_edge: one data dict per edge, which an
\* undirected graph stores under both endpoints
add_edge(g, u, v, data, directed) ==
  LET g2 == add_node(add_node(g, u), v)
      old == IF v \in DOMAIN g2.adj[u] THEN g2.adj[u][v] ELSE {}
      dd == update(old, data)
      a1 == set_adj(g2.adj, u, v, dd)
  IN  [node |-> g2.node,
       adj |-> IF directed THEN a1 ELSE set_adj(a1, v, u, dd)]

edge_attr(cfg) ==
  (IF cfg.weighted THEN <<"weight">> ELSE <<>>) \o cfg.edge_attrs

\* the columns of E: 0, 1 and, when weighted, 'weight'
HasColumns(cfg) ==
  \A c \in Range(edge_attr(cfg)) : c = "weight" /\ cfg.weighted

RECURSIVE add_edges_from(_, _, _, _)
add_edges_from(g, edges, i, cfg) ==
  IF i > Len(edges) THEN g
  ELSE add_edges_from(
         add_edge(g, edges[i].c0.items[1], edges[i].c1.items[1],
                  {p \in edges[i].attrs : p[1] \in Range(edge_attr(cfg))},
                  cfg.directed),
         edges, i + 1, cfg)

from_pandas_edgelist(edges, cfg) == add_edges_from(EmptyGraph, edges, 1, cfg)

(***************************************************************************)
(* Lines 108-115: node attributes.                                         *)
(***************************************************************************)
index_column(cfg) == IF cfg.node_index = None THEN source ELSE cfg.node_index

\* pd.Series(df[attr].values.tolist(), index=df[index].values.tolist())
Series(frame, attr, cfg) ==
  [i \in 1..Len(frame) |->
     [key |-> frame[i][index_column(cfg)].items[1], value |-> frame[i][attr]]]

\* Series.drop_duplicates(): the first entry of every distinct value is
\* kept, whatever its index label
drop_duplicates(series) ==
  LET first(i) == \A j \in 1..(i - 1) : series[j].value # series[i].value
      F[i \in 0..Len(series)] ==
        IF i = 0 THEN <<>>
        ELSE IF first(i) THEN Append(F[i - 1], series[i]) ELSE F[i - 1]
  IN  F[Len(series)]

\* Series.to_dict(): the last entry of a repeated index label wins
to_dict(series) ==
  LET keys == {series[i].key : i \in 1..Len(series)}
      last(k) == CHOOSE i \in 1..Len(series) :
                   /\ series[i].key = k
                   /\ \A j \in (i + 1)..Len(series) : series[j].key # k
  IN  [k \in keys |-> series[last(k)].value]

\* set_node_attributes, had it added the keys that are no node of G
set_node_attributes_adding(g, values, name) ==
  [g EXCEPT !.node =
     [n \in DOMAIN g.node \cup DOMAIN values |->
        IF n \in DOMAIN values
        THEN {<<name, values[n]>>}
        ELSE g.node[n]]]

\* nx.set_node_attributes(G, values, name): nodes not in G are skipped
set_node_attributes(g, values, name) ==
  [g EXCEPT !.node =
     [n \in DOMAIN g.node |->
        IF n \in DOMAIN values
        THEN update(g.node[n], {<<name, values[n]>>})
        ELSE g.node[n]]]

node_attribute_map(frame, attr, cfg) ==
  to_dict(drop_duplicates(Series(frame, attr, cfg)))

RECURSIVE bind_node_attrs(_, _, _, _)
bind_node_attrs(g, frame, attrs, cfg) ==
  IF attrs = <<>> THEN g
  ELSE bind_node_attrs(
         set_node_attributes(g, node_attribute_map(frame, Head(attrs), cfg),
                             Head(attrs)),
         frame, Tail(attrs), cfg)

(***************************************************************************)
(* convert_to_graph, one action per stage.  pc is the stage reached, err   *)
(* the exception that ended the call.                                      *)
(***************************************************************************)
\* the defaults of convert_to_graph's parameters
Defaults ==
  [ directed |-> TRUE, weighted |-> TRUE, self_loops |-> TRUE,
    explode |-> FALSE, target_map |-> "identity", node_attrs |-> <<>>,
    edge_attrs |-> <<>>, node_index |-> None ]

Init ==
  /\ pc = "start"
  /\ config \in Configs
  /\ csv = <<>>
  /\ df = <<>>
  /\ E = <<>>
  /\ G = EmptyGraph
  /\ err = "none"
  /\ x = <<>>
  /\ tokens = <<>>

Raise(e) ==
  /\ pc' = "error"
  /\ err' = e
  /\ UNCHANGED <<config, csv, df, E, G, x, tokens>>

\* line 76: [source] + target + (node_index or []) adds a str to a list
ReadCsvTypeError ==
  /\ pc = "start"
  /\ config.node_index # None
  /\ Raise("TypeError")

\* lines 72-77
ReadCsv ==
  /\ pc = "start"
  /\ config.node_index = None
  /\ \E file \in Files(config) :
       /\ csv' = file
       /\ df' = read_csv(file, config)
  /\ pc' = "read"
  /\ UNCHANGED <<config, E, G, err, x, tokens>>

\* lines 79-84
Normalize ==
  /\ pc = "read"
  /\ df' = normalize(df, config)
  /\ pc' = "normalized"
  /\ UNCHANGED <<config, csv, E, G, err, x, tokens>>

\* lines 86-96
EdgeList ==
  /\ pc = "normalized"
  /\ LET edges == edge_list(df, config)
     IN  /\ config.weighted => ~Unhashable(edges)
         /\ E' = IF config.weighted THEN with_weight(edges) ELSE edges
  /\ pc' = "edges"
  /\ UNCHANGED <<config, csv, df, G, err, x, tokens>>

\* line 95: value_counts over cells that hold a list
EdgeListTypeError ==
  /\ pc = "normalized"
  /\ config.weighted
  /\ Unhashable(edge_list(df, config))
  /\ Raise("TypeError")

\* lines 98-106, with a non-empty edge_attr whose columns E has
BuildGraph ==
  /\ pc = "edges"
  /\ edge_attr(config) # <<>>
  /\ HasColumns(config)
  /\ ~Unhashable(E)
  /\ G' = from_pandas_edgelist(E, config)
  /\ pc' = "graph"
  /\ UNCHANGED <<config, csv, df, E, err, x, tokens>>

\* lines 98-106 with edge_attr=[]: a networkx that takes the empty list for
\* "no attribute" adds the bare edges
BuildGraphBare ==
  /\ pc = "edges"
  /\ edge_attr(config) = <<>>
  /\ ~Unhashable(E)
  /\ G' = from_pandas_edgelist(E, config)
  /\ pc' = "graph"
  /\ UNCHANGED <<config, csv, df, E, err, x, tokens>>

\* lines 98-106: from_pandas_edgelist rejects an edge_attr column that E
\* does not have, and (networkx 2.5 and later) an empty edge_attr list
BuildGraphNetworkXError ==
  /\ pc = "edges"
  /\ edge_attr(config) = <<>> \/ ~HasColumns(config)
  /\ Raise("NetworkXError")

\* lines 98-106: a list cannot be a node
BuildGraphTypeError ==
  /\ pc = "edges"
  /\ edge_attr(config) = <<>>
  /\ Unhashable(E)
  /\ Raise("TypeError")

\* lines 108-123, with output_name None
SetNodeAttrs ==
  /\ pc = "graph"
  /\ G' = bind_node_attrs(G, df, config.node_attrs, config)
  /\ pc' = "done"
  /\ UNCHANGED <<config, csv, df, E, err, x, tokens>>

Next ==
  \/ ReadCsvTypeError
  \/ ReadCsv
  \/ Normalize
  \/ EdgeList
  \/ EdgeListTypeError
  \/ BuildGraph
  \/ BuildGraphBare
  \/ BuildGraphNetworkXError
  \/ BuildGraphTypeError
  \/ SetNodeAttrs

Spec == Init /\ [][Next]_vars

(***************************************************************************)
(* The token extractors on their own, over every text of bounded length.   *)
(***************************************************************************)
Texts == UNION {[1..n -> Alphabet] : n \in 0..MaxLen}

InitTokens ==
  /\ pc = "text"
  /\ x \in Texts
  /\ tokens = <<>>
  /\ config = Defaults
  /\ csv = <<>>
  /\ df = <<>>
  /\ E = <<>>
  /\ G = EmptyGraph
  /\ err = "none"

FindMentions ==
  /\ pc = "text"
  /\ tokens' = find_mentions(x)
  /\ pc' = "mentions"
  /\ UNCHANGED <<config, csv, df, E, G, err, x>>

FindHashtags ==
  /\ pc = "text"
  /\ tokens' = find_hashtags(x)
  /\ pc' = "hashtags"
  /\ UNCHANGED <<config, csv, df, E, G, err, x>>

NextTokens == FindMentions \/ FindHashtags

SpecTokens == InitTokens /\ [][NextTokens]_vars

(***************************************************************************)
(* What the properties below read off a state.                             *)
(***************************************************************************)
Returned == pc = "done"

Ended == pc \in {"done", "error"}

Nodes == DOMAIN G.node

HasEdge(u, v) == u \in DOMAIN G.adj /\ v \in DOMAIN G.adj[u]

\* the endpoints of the edges of G
Endpoints ==
  {u \in DOMAIN G.adj : DOMAIN G.adj[u] # {}}
    \cup UNION {DOMAIN G.adj[u] : u \in DOMAIN G.adj}

\* the rows of E that hold the pair (u, v)
RowsOf(u, v) ==
  {i \in 1..Len(E) : E[i].c0 = Scalar(u) /\ E[i].c1 = Scalar(v)}

ListMode == config.target_map \in {"mentions", "hashtags"}

\* the tokens the extractor finds in column t of record i of the file
TokensOf(i, t) == apply_target_map(config.target_map, astype_str(csv[i][t])).items

\* the rows of df that come from record i of the file
FrameRowsOf(i) == {k \in 1..Len(df) : df[k]["index"] = i}

\* the call can end in an error for no other reason than the one examined
NoListCells == config.explode \/ ~ListMode

(***************************************************************************)
(* C1.  With weighted=true, every (source, target) pair that k surviving   *)
(* candidate rows hold is an edge of the returned graph whose 'weight' is  *)
(* k, and k >= 1, whether the graph is directed or not.                    *)
(***************************************************************************)
C1_WeightIsRowCount ==
  (Returned /\ config.weighted) =>
    \A i \in 1..Len(E) :
      LET u == E[i].c0.items[1]
          v == E[i].c1.items[1]
          k == Cardinality(RowsOf(u, v))
      IN  /\ k >= 1
          /\ HasEdge(u, v)
          /\ G.adj[u][v] = {<<"weight", k>>}

(***************************************************************************)
(* C2.  With self_loops=false the returned graph has no edge from a node   *)
(* to itself, whatever the other flags and the rows.                       *)
(***************************************************************************)
C2_NoSelfLoop ==
  (Returned /\ ~config.self_loops) => \A u \in Nodes : ~HasEdge(u, u)

\* a graph was returned although a candidate pair was a self-loop
C2_Witness ==
  /\ Returned
  /\ config.weighted
  /\ ~config.self_loops
  /\ Nodes # {}
  /\ \E r \in Range(concat(df, target)) : r.c0 = r.c1

(***************************************************************************)
(* C3.  The nodes of the returned graph are exactly the endpoints of its   *)
(* edges: binding node attributes creates no node, so an index value that  *)
(* is no endpoint is not in the graph.                                     *)
(***************************************************************************)
C3_NodesAreEndpoints ==
  Returned =>
    /\ Nodes = Endpoints
    /\ DOMAIN G.adj = Nodes
    /\ \A i \in 1..Len(E) : {E[i].c0.items[1], E[i].c1.items[1]} \subseteq Nodes

\* the attribute map had a key that is no endpoint of the graph's edges
C3_Witness ==
  /\ Returned
  /\ config.weighted
  /\ config.node_attrs # <<>>
  /\ Nodes # {}
  /\ \E n \in DOMAIN node_attribute_map(df, "attr", config) : n \notin Nodes

(***************************************************************************)
(* C4.  Under identity extraction a missing target value gives no          *)
(* candidate pair: every node of the returned graph is a value some        *)
(* record really holds, none stands for a missing one.                     *)
(***************************************************************************)
C4_MissingTargetDropped ==
  (Returned /\ config.weighted /\ config.target_map = "identity") =>
    Nodes \subseteq
      UNION {{csv[i][c].items[1] :
                c \in {d \in {source} \cup Range(target) : csv[i][d].kind # "nan"}} :
             i \in 1..Len(csv)}

(***************************************************************************)
(* C5.  Every node that occurs in the index column carries, for a node     *)
(* attribute column, the value of the last row with that index value; two  *)
(* index values that share a value both carry it.                          *)
(***************************************************************************)
C5_LastRowWins ==
  (Returned /\ config.weighted /\ config.node_attrs # <<>>) =>
    \A n \in Nodes :
      \A i \in 1..Len(csv) :
        ( /\ csv[i][source] = Scalar(n)
          /\ \A j \in (i + 1)..Len(csv) : csv[j][source] # Scalar(n) )
        => G.node[n] = {<<"attr", csv[i]["attr"]>>}

(***************************************************************************)
(* C6.  With a node index column and node attribute columns configured the *)
(* call completes; without a node index column the attribute map is keyed  *)
(* by the source column.                                                   *)
(***************************************************************************)
C6_NodeIndexAccepted ==
  /\ ( /\ Ended
       /\ config.node_index # None
       /\ config.node_attrs # <<>>
       /\ config.edge_attrs = <<>>
       /\ config.weighted
       /\ NoListCells )
     => Returned
  /\ (Returned /\ config.node_index = None /\ config.node_attrs # <<>>)
     => \A n \in Nodes :
          G.node[n] # {} => \E k \in 1..Len(df) : df[k][source] = Scalar(n)

(***************************************************************************)
(* C7.  With edge attribute columns configured the call completes and      *)
(* every edge carries, for each such column, the value of a row that       *)
(* produced the edge.                                                      *)
(***************************************************************************)
C7_EdgeAttrsCarried ==
  ( /\ Ended
    /\ config.edge_attrs # <<>>
    /\ config.node_index = None
    /\ config.weighted
    /\ NoListCells )
  => /\ Returned
     /\ \A u \in Nodes : \A v \in DOMAIN G.adj[u] :
          \A c \in Range(config.edge_attrs) :
            \E k \in 1..Len(df) : <<c, df[k][c]>> \in G.adj[u][v]

(***************************************************************************)
(* C8.  find_mentions returns, in order, the whitespace-separated tokens   *)
(* that start with "@" and are longer than 1 character once the "@" is     *)
(* stripped, without the "@": "@a" and "@" give nothing and no returned    *)
(* token is empty.                                                         *)
(***************************************************************************)
C8_ClaimedMentions ==
  LET starts == SelectSeq(split(lower(x)), LAMBDA t : startswith(t, "@"))
      long == SelectSeq(starts, LAMBDA t : Len(lstrip(t, "@")) > 1)
  IN  [i \in 1..Len(long) |-> lstrip(long[i], "@")]

C8_MentionsLongerThanOne ==
  pc = "mentions" =>
    /\ tokens = C8_ClaimedMentions
    /\ \A i \in 1..Len(tokens) : tokens[i] # <<>>

(***************************************************************************)
(* C9.  In an undirected weighted graph the rows of (a, b) and the rows of *)
(* (b, a) are two edges, each with its own count as weight.                *)
(***************************************************************************)
C9_OrientationsKeptApart ==
  (Returned /\ ~config.directed /\ config.weighted) =>
    \A u \in Nodes : \A v \in Nodes :
      (u # v /\ RowsOf(u, v) # {} /\ RowsOf(v, u) # {}) =>
        /\ HasEdge(u, v) /\ G.adj[u][v] = {<<"weight", Cardinality(RowsOf(u, v))>>}
        /\ HasEdge(v, u) /\ G.adj[v][u] = {<<"weight", Cardinality(RowsOf(v, u))>>}

(***************************************************************************)
(* C10.  With explode=true and a list-producing extractor, a record with   *)
(* zero tokens in a target column contributes no row to the later stages:  *)
(* no candidate pair for any target column, no entry for the attribute     *)
(* map.                                                                    *)
(***************************************************************************)
C10_Exploded == pc \in {"normalized", "edges", "graph", "done"} /\ config.explode /\ ListMode

C10_RecordDropped ==
  (Returned /\ config.weighted /\ C10_Exploded) =>
    \A i \in 1..Len(csv) :
      (\E t \in Range(target) : TokensOf(i, t) = <<>>) =>
        /\ \A k \in FrameRowsOf(i) : \A t \in Range(target) : df[k][t].kind = "nan"
        /\ config.node_attrs # <<>> => FrameRowsOf(i) = {}

(***************************************************************************)
(* C10, as the code has it.  With explode=true and a list-producing        *)
(* extractor, a record with zero tokens in a target column stays in the    *)
(* frame with the missing value in that column: it gives no candidate pair *)
(* for that column, and still gives one pair per token of its other target *)
(* columns and its rows to the attribute series.                           *)
(***************************************************************************)
C10_ColumnDropped ==
  C10_Exploded =>
    \A i \in 1..Len(csv) : \A t \in Range(target) :
      TokensOf(i, t) = <<>> =>
        /\ FrameRowsOf(i) # {}
        /\ \A k \in FrameRowsOf(i) : df[k][t].kind = "nan"
        /\ \A o \in Range(target) : \A tok \in Range(TokensOf(i, o)) :
             \E k \in FrameRowsOf(i) : df[k][o] = Scalar(tok)

\* a record without token in t1 and with one in t2 gave an edge
C10_Witness ==
  /\ Returned
  /\ config.weighted
  /\ config.explode
  /\ ListMode
  /\ Nodes # {}
  /\ \E i \in 1..Len(csv) : TokensOf(i, "t1") = <<>> /\ TokensOf(i, "t2") # <<>>

====
